---- MODULE Spec2Model ----
(***************************************************************************)
(* Model of the SnakeGame React component                                  *)
(* (src/src/components/SnakeGame.tsx).                                     *)
(*                                                                         *)
(* Every event handler (key press, button click, timer firing) is one      *)
(* atomic action: the handler's state updates, the re-render they cause    *)
(* and the game-loop effect's cleanup / re-run are part of the same step   *)
(* (single-threaded event loop, batched updates).  Closures created by a   *)
(* render read the state of that render; since every step ends with a      *)
(* re-render, a handler's closure values are the values of the state at    *)
(* the beginning of the step.                                              *)
(***************************************************************************)
EXTENDS Integers, Sequences, FiniteSets

\* ---------------------------------------------------------------- constants
GRID_SIZE == 20
INITIAL_SPEED == 150
SPEED_INCREASE == 5
MIN_SPEED == 50
SCORE_STEP == 10
INIT_X == 8
INIT_Y == 8
INIT_FOOD == 5

\* ------------------------------------------------------------------ bounds
\* A food-consuming tick is explored only while the snake is shorter.
MaxLen == 3
\* Math.random() draws are explored for x in INIT_X .. INIT_X+RandSpan, on the
\* row y = INIT_Y of the initial segment.
RandSpan == 1

\* ------------------------------------------------------------------- types
Direction == {"UP", "DOWN", "LEFT", "RIGHT"}

Keys == {"ArrowUp", "ArrowDown", "ArrowLeft", "ArrowRight", " ", "Other"}

Cell(cx, cy) == [x |-> cx, y |-> cy]

\* toast(...) calls made by one step: <<>> or <<score shown>>
NoToast == <<>>

VARIABLES
    snake,         \* useState<Cell[]>, head first
    food,          \* useState<Cell>
    direction,     \* useState<Direction>
    directionRef,  \* useRef(direction): read by handlers and by the tick
    gameOver,      \* useState(false)
    isPaused,      \* useState(false)
    score,         \* useState(0)
    speed,         \* useState(INITIAL_SPEED)
    gameStarted,   \* useState(false)
    timer,         \* gameLoopRef: interval of the pending timeout, 0 = none
    pendingTimers, \* number of timeouts armed and neither fired nor cleared
    toast,         \* the toasts the last step emitted (their score), NoToast if none
    lastMove,      \* history: direction applied by the session's last tick, or "NONE"
    guardHit       \* history: the last step was a moveSnake call that returned at line 94

vars == <<snake, food, direction, directionRef, gameOver, isPaused, score,
          speed, gameStarted, timer, pendingTimers, toast, lastMove, guardHit>>

\* ----------------------------------------------------------------- helpers
\* Array.prototype.some(segment => segment.x === c.x && segment.y === c.y)
Occupies(s, c) == \E i \in 1..Len(s) : s[i].x = c.x /\ s[i].y = c.y

\* Math.floor(Math.random() * GRID_SIZE), explored on a window of the grid
RandomX == {c \in 0..(GRID_SIZE - 1) : c >= INIT_X /\ c <= INIT_X + RandSpan}

RandomY == {c \in 0..(GRID_SIZE - 1) : c = INIT_Y}

\* placeFood, called from a render whose snake is s: the cells it can commit.
\* A draw on a segment of s recurses; the draw that is not on s is committed.
PlaceFood(s) ==
    {c \in {Cell(cx, cy) : cx \in RandomX, cy \in RandomY} : ~Occupies(s, c)}

\* Variant of the head move with the vertical axis inverted
MoveHead_Swapped(head, d) ==
    CASE d = "UP"    -> Cell(head.x, head.y + 1)
      [] d = "DOWN"  -> Cell(head.x, head.y - 1)
      [] d = "LEFT"  -> Cell(head.x - 1, head.y)
      [] d = "RIGHT" -> Cell(head.x + 1, head.y)

\* moveSnake: the head moved one step in direction d
MoveHead(head, d) ==
    CASE d = "UP"    -> Cell(head.x, head.y - 1)
      [] d = "DOWN"  -> Cell(head.x, head.y + 1)
      [] d = "LEFT"  -> Cell(head.x - 1, head.y)
      [] d = "RIGHT" -> Cell(head.x + 1, head.y)

\* Variant of the game-over test: upper wall bounds off by one
HitsWallOrSelf_OffByOne(head, prevSnake) ==
    \/ head.x < 0 \/ head.x > GRID_SIZE
    \/ head.y < 0 \/ head.y > GRID_SIZE
    \/ Occupies(prevSnake, head)

\* Variant of the game-over test: the tail cell, which a move vacates, is
\* not counted as a collision
HitsWallOrSelf_TailFree(head, prevSnake) ==
    \/ head.x < 0 \/ head.x >= GRID_SIZE
    \/ head.y < 0 \/ head.y >= GRID_SIZE
    \/ Occupies(SubSeq(prevSnake, 1, Len(prevSnake) - 1), head)

\* Variant of the game-over test: walls only
HitsWallOrSelf_WallsOnly(head, prevSnake) ==
    \/ head.x < 0 \/ head.x >= GRID_SIZE
    \/ head.y < 0 \/ head.y >= GRID_SIZE

\* Variant of the game-over test: the walls at x = 0 and y = 0 are open
HitsWallOrSelf_NoLowerWall(head, prevSnake) ==
    \/ head.x >= GRID_SIZE
    \/ head.y >= GRID_SIZE
    \/ Occupies(prevSnake, head)

\* moveSnake: the game-over test (hit wall or itself)
HitsWallOrSelf(head, prevSnake) ==
    \/ head.x < 0 \/ head.x >= GRID_SIZE
    \/ head.y < 0 \/ head.y >= GRID_SIZE
    \/ Occupies(prevSnake, head)

\* Variant of the toast: the score of the session's start is shown
GameOverToast_Stale(sc) == <<0>>

\* toast({title: "Game Over!", description: `Your score: ${score}`})
GameOverToast(sc) == <<sc>>

\* Variant of the speed step without the floor
NextSpeed_NoFloor(prev) == prev - SPEED_INCREASE

\* Math.max(prev - SPEED_INCREASE, 50)
NextSpeed(prev) ==
    IF prev - SPEED_INCREASE > MIN_SPEED THEN prev - SPEED_INCREASE ELSE MIN_SPEED

\* Variant of the tail removal: shift() in place of pop()
Pop_Shift(s) == SubSeq(s, 2, Len(s))

\* Variant of the tail removal: no segment is removed
Pop_Keep(s) == s

\* newSnake.pop()
Pop(s) == SubSeq(s, 1, Len(s) - 1)

\* handleDirectionButton: the guard that prevents 180-degree turns
ButtonAccepts(newDirection, currentDir) ==
    \/ newDirection = "UP" /\ currentDir # "DOWN"
    \/ newDirection = "DOWN" /\ currentDir # "UP"
    \/ newDirection = "LEFT" /\ currentDir # "RIGHT"
    \/ newDirection = "RIGHT" /\ currentDir # "LEFT"

\* handleKeyDown: the direction an arrow key asks for
KeyDirection(key) ==
    CASE key = "ArrowUp"    -> "UP"
      [] key = "ArrowDown"  -> "DOWN"
      [] key = "ArrowLeft"  -> "LEFT"
      [] key = "ArrowRight" -> "RIGHT"

\* handleKeyDown: the per-case guard of the switch
KeyAccepts(key, currentDir) ==
    \/ key = "ArrowUp" /\ currentDir # "DOWN"
    \/ key = "ArrowDown" /\ currentDir # "UP"
    \/ key = "ArrowLeft" /\ currentDir # "RIGHT"
    \/ key = "ArrowRight" /\ currentDir # "LEFT"

\* The game-loop effect after a render: a timeout of `sp` is pending exactly
\* when the effect did not return early.
GameLoopTimer(started, paused, over, sp) ==
    IF ~started \/ paused \/ over THEN 0 ELSE sp

\* Variant of the dependencies: [gameStarted, isPaused, gameOver] only
EffectDepsChanged_FlagsOnly(flags, snakeCh, foodCh, scoreCh, speedCh) == flags

\* The effect's dependencies [gameStarted, isPaused, gameOver, moveSnake, speed]:
\* moveSnake is a new callback when a flag, the food, the score or the snake
\* (through placeFood) changed.  Every setSnake that installs a new array
\* changes the snake's cells or comes with a flag change.
EffectDepsChanged(flags, snakeCh, foodCh, scoreCh, speedCh) ==
    flags \/ snakeCh \/ foodCh \/ scoreCh \/ speedCh

\* Variant of the cleanup that clears nothing
EffectCleanup_NoClear(t, n, armed) == <<t, n>>

\* The effect's cleanup: if (gameLoopRef.current) clearTimeout(gameLoopRef.current).
\* <<timer, pendingTimers>> after it; `armed` says the effect run being cleaned
\* up had not returned early, so that it registered the cleanup.
EffectCleanup(t, n, armed) ==
    IF armed /\ t # 0 THEN <<0, n - 1>> ELSE <<t, n>>

\* The effect's body: gameLoopRef.current = window.setTimeout(gameLoop, speed)
\* unless it returns early.
EffectArm(t, n, started, paused, over, sp) ==
    IF GameLoopTimer(started, paused, over, sp) = 0
    THEN <<t, n>>
    ELSE <<GameLoopTimer(started, paused, over, sp), n + 1>>

\* <<timer, pendingTimers>> after the re-render that follows a handler:
\* cleanup and re-run of the game-loop effect when its dependencies changed.
AfterRender(t, n, changed, armed, started, paused, over, sp) ==
    IF changed
    THEN LET c == EffectCleanup(t, n, armed)
         IN  EffectArm(c[1], c[2], started, paused, over, sp)
    ELSE <<t, n>>

\* gameLoop: the timeout that fired is gone; moveSnake() has run;
\* gameLoopRef.current = window.setTimeout(gameLoop, speed) with the speed of
\* the closure.  <<timer, pendingTimers>> after it.
GameLoopRearm(n, sp) == <<sp, (n - 1) + 1>>

\* Variant of the guard that lets a paused session move
MoveSnakeReturnsEarly_IgnoresPause(over, paused, started) == over \/ ~started

\* moveSnake: if (gameOver || isPaused || !gameStarted) return
MoveSnakeReturnsEarly(over, paused, started) == over \/ paused \/ ~started

\* ------------------------------------------------------------------- Init
Init ==
    /\ snake = <<Cell(INIT_X, INIT_Y)>>
    /\ food = Cell(INIT_FOOD, INIT_FOOD)
    /\ direction = "RIGHT"
    /\ directionRef = "RIGHT"
    /\ gameOver = FALSE
    /\ isPaused = FALSE
    /\ score = 0
    /\ speed = INITIAL_SPEED
    /\ gameStarted = FALSE
    /\ timer = 0
    /\ pendingTimers = 0
    /\ toast = NoToast
    /\ lastMove = "NONE"
    /\ guardHit = FALSE

\* Sessions one food above the speed floor and at it (19 or 20 foods
\* consumed): the head at (9,7) moving DOWN towards the food at (9,8), the
\* body up column 9 to (9,0), along row 0 to (19,0) and down column 19.
FloorLen == (INITIAL_SPEED - MIN_SPEED) \div SPEED_INCREASE

LongSnake(n) ==
    [i \in 1..n |->
        IF i <= 8 THEN Cell(INIT_X + 1, INIT_Y - i)
        ELSE IF i <= 18 THEN Cell(i + 1, 0)
        ELSE Cell(GRID_SIZE - 1, i - 18)]

InitFloor ==
    \E n \in {FloorLen, FloorLen + 1} :
        /\ snake = LongSnake(n)
        /\ food = Cell(INIT_X + 1, INIT_Y)
        /\ direction = "DOWN"
        /\ directionRef = "DOWN"
        /\ gameOver = FALSE
        /\ isPaused = FALSE
        /\ score = SCORE_STEP * (n - 1)
        /\ speed = INITIAL_SPEED - SPEED_INCREASE * (n - 1)
        /\ gameStarted = TRUE
        /\ timer = INITIAL_SPEED - SPEED_INCREASE * (n - 1)
        /\ pendingTimers = 1
        /\ toast = NoToast
        /\ lastMove = "DOWN"
        /\ guardHit = FALSE

\* ---------------------------------------------------------------- actions
\* Variant of startGame that can be invoked in every session state
StartGame_Always ==
    /\ snake' = <<Cell(INIT_X, INIT_Y)>>
    /\ directionRef' = "RIGHT"
    /\ direction' = "RIGHT"
    /\ gameOver' = FALSE
    /\ score' = 0
    /\ speed' = INITIAL_SPEED
    /\ food' \in PlaceFood(snake)
    /\ gameStarted' = TRUE
    /\ isPaused' = FALSE
    /\ LET r == AfterRender(timer, pendingTimers, TRUE,
                            ~MoveSnakeReturnsEarly(gameOver, isPaused, gameStarted),
                            TRUE, FALSE, FALSE, INITIAL_SPEED)
       IN  timer' = r[1] /\ pendingTimers' = r[2]
    /\ toast' = NoToast
    /\ lastMove' = "NONE"
    /\ guardHit' = FALSE

\* Variant of startGame that does not reset the speed
StartGame_KeepsSpeed ==
    /\ gameOver \/ ~gameStarted
    /\ snake' = <<Cell(INIT_X, INIT_Y)>>
    /\ directionRef' = "RIGHT"
    /\ direction' = "RIGHT"
    /\ gameOver' = FALSE
    /\ score' = 0
    /\ speed' = speed
    /\ food' \in PlaceFood(snake)
    /\ gameStarted' = TRUE
    /\ isPaused' = FALSE
    /\ LET r == AfterRender(timer, pendingTimers, TRUE,
                            ~MoveSnakeReturnsEarly(gameOver, isPaused, gameStarted),
                            TRUE, FALSE, FALSE, speed)
       IN  timer' = r[1] /\ pendingTimers' = r[2]
    /\ toast' = NoToast
    /\ lastMove' = "NONE"
    /\ guardHit' = FALSE

\* startGame: the overlay button, rendered when gameOver || !gameStarted.
\* placeFood is the callback of the current render: it tests the snake of
\* that render, not the snake startGame has just set.
StartGame ==
    /\ gameOver \/ ~gameStarted
    /\ snake' = <<Cell(INIT_X, INIT_Y)>>
    /\ directionRef' = "RIGHT"
    /\ direction' = "RIGHT"
    /\ gameOver' = FALSE
    /\ score' = 0
    /\ speed' = INITIAL_SPEED
    /\ food' \in PlaceFood(snake)
    /\ gameStarted' = TRUE
    /\ isPaused' = FALSE
    /\ LET r == AfterRender(timer, pendingTimers, TRUE,
                            ~MoveSnakeReturnsEarly(gameOver, isPaused, gameStarted),
                            TRUE, FALSE, FALSE, INITIAL_SPEED)
       IN  timer' = r[1] /\ pendingTimers' = r[2]
    /\ toast' = NoToast
    /\ lastMove' = "NONE"
    /\ guardHit' = FALSE

\* setIsPaused(prev => !prev), followed by the effect's re-run
FlipPaused ==
    /\ isPaused' = ~isPaused
    /\ LET r == AfterRender(timer, pendingTimers,
                            EffectDepsChanged(TRUE, FALSE, FALSE, FALSE, FALSE),
                            ~MoveSnakeReturnsEarly(gameOver, isPaused, gameStarted),
                            gameStarted, ~isPaused, gameOver, speed)
       IN  timer' = r[1] /\ pendingTimers' = r[2]
    /\ UNCHANGED <<snake, food, direction, directionRef, gameOver, score,
                   speed, gameStarted, lastMove>>

\* togglePause from a Pause/Resume button (the mobile one is always rendered)
TogglePause ==
    /\ FlipPaused
    /\ toast' = NoToast
    /\ guardHit' = FALSE

\* handleKeyDown
HandleKeyDown ==
    \E key \in Keys :
        /\ IF key \in {"ArrowUp", "ArrowDown", "ArrowLeft", "ArrowRight"}
           THEN /\ IF KeyAccepts(key, directionRef)
                   THEN /\ direction' = KeyDirection(key)
                        /\ directionRef' = KeyDirection(key)
                   ELSE UNCHANGED <<direction, directionRef>>
                /\ UNCHANGED <<snake, food, gameOver, isPaused, score, speed,
                               gameStarted, timer, pendingTimers, lastMove>>
           ELSE IF key = " "
           THEN FlipPaused
           ELSE UNCHANGED <<snake, food, direction, directionRef, gameOver,
                            isPaused, score, speed, gameStarted, timer,
                            pendingTimers, lastMove>>
        /\ toast' = NoToast
        /\ guardHit' = FALSE

\* handleDirectionButton
HandleDirectionButton ==
    \E newDirection \in Direction :
        /\ IF ButtonAccepts(newDirection, directionRef)
           THEN /\ direction' = newDirection
                /\ directionRef' = newDirection
           ELSE UNCHANGED <<direction, directionRef>>
        /\ UNCHANGED <<snake, food, gameOver, isPaused, score, speed,
                       gameStarted, timer, pendingTimers, lastMove>>
        /\ toast' = NoToast
        /\ guardHit' = FALSE

\* The snake stops growing at MaxLen; a snake that has reached the speed
\* floor's length is explored without a cap.
MayGrow(len) ==
    len < MaxLen \/ len >= FloorLen

\* moveSnake, the callback of the current render (its closure holds the
\* flags, food and score of the state, and placeFood that of the snake).
MoveSnake ==
    IF MoveSnakeReturnsEarly(gameOver, isPaused, gameStarted)
    THEN /\ toast' = NoToast
         /\ guardHit' = TRUE
         /\ UNCHANGED <<snake, food, score, speed, gameOver, lastMove>>
    ELSE /\ LET head == MoveHead(snake[1], directionRef) IN
            IF HitsWallOrSelf(head, snake)
            THEN /\ gameOver' = TRUE
                 /\ toast' = GameOverToast(score)
                 /\ UNCHANGED <<snake, food, score, speed>>
            ELSE IF head.x = food.x /\ head.y = food.y
            THEN /\ MayGrow(Len(snake))
                 /\ snake' = <<head>> \o snake
                 /\ score' = score + SCORE_STEP
                 /\ food' \in PlaceFood(snake)
                 /\ speed' = NextSpeed(speed)
                 /\ toast' = NoToast
                 /\ UNCHANGED gameOver
            ELSE /\ snake' = Pop(<<head>> \o snake)
                 /\ toast' = NoToast
                 /\ UNCHANGED <<food, score, speed, gameOver>>
         /\ lastMove' = directionRef
         /\ guardHit' = FALSE

\* The pending timeout fires: gameLoop calls moveSnake and arms a timeout of
\* the speed its closure holds (line 152); the re-render that follows cleans
\* the effect up (clearing that timeout) and re-runs it.
Tick ==
    /\ timer # 0
    /\ MoveSnake
    /\ LET g == GameLoopRearm(pendingTimers, speed)
           r == AfterRender(g[1], g[2],
                    EffectDepsChanged(gameOver' # gameOver, snake' # snake,
                        food' # food, score' # score, speed' # speed),
                    TRUE, gameStarted, isPaused, gameOver', speed')
       IN  timer' = r[1] /\ pendingTimers' = r[2]
    /\ UNCHANGED <<direction, directionRef, isPaused, gameStarted>>

\* moveSnake of the current render called while no timeout is pending (the
\* game loop never does so: its timeout is cleared when the session stops).
MoveSnakeCall ==
    /\ timer = 0
    /\ MoveSnake
    /\ UNCHANGED <<direction, directionRef, isPaused, gameStarted, timer,
                   pendingTimers>>

Next ==
    \/ StartGame
    \/ TogglePause
    \/ HandleKeyDown
    \/ HandleDirectionButton
    \/ Tick

Spec == Init /\ [][Next]_vars

\* The game played with the on-screen buttons, with moveSnake also called
\* from outside the game loop
NextDriver ==
    \/ StartGame
    \/ TogglePause
    \/ HandleDirectionButton
    \/ Tick
    \/ MoveSnakeCall

SpecDriver == Init /\ [][NextDriver]_vars

\* The game from InitFloor, played without direction requests
NextFloor ==
    \/ StartGame
    \/ TogglePause
    \/ Tick

SpecFloor == InitFloor /\ [][NextFloor]_vars

\* ------------------------------------------------------------ properties
Opposite(d) ==
    CASE d = "UP"    -> "DOWN"
      [] d = "DOWN"  -> "UP"
      [] d = "LEFT"  -> "RIGHT"
      [] d = "RIGHT" -> "LEFT"

\* Running: started, not paused, not over
Running == gameStarted /\ ~isPaused /\ ~gameOver

InGrid(c) == c.x >= 0 /\ c.x < 20 /\ c.y >= 0 /\ c.y < 20

\* The head the next tick computes
TickHead == MoveHead(snake[1], directionRef)

\* A tick step that consumed the food
FoodTick == Tick /\ Len(snake') = Len(snake) + 1

\* C1: the direction a tick applies is never the exact opposite of the
\* direction the snake moved on its previous tick, whatever direction
\* requests arrived between the two ticks.
C1_NoReversal ==
    [][Tick => (lastMove = "NONE" \/ directionRef # Opposite(lastMove))]_vars

\* C2: while Running, every direction d that is not the opposite of the
\* direction of the snake's last move is accepted by both handlers (the
\* pending direction becomes d), whatever was requested since the last tick.
C2_NonReversalAccepted ==
    (Running /\ lastMove # "NONE") =>
        \A d \in Direction :
            d # Opposite(lastMove) =>
                /\ ButtonAccepts(d, directionRef)
                /\ \A key \in Keys \ {" ", "Other"} :
                       KeyDirection(key) = d => KeyAccepts(key, directionRef)

\* C3: placeFood, called by start() or by a food-consuming tick, commits a
\* cell of the grid that is on no segment of the snake as it stands once
\* that operation has completed.
C3_FoodOffSnake ==
    [][(StartGame \/ FoodTick) =>
          (InGrid(food') /\ ~Occupies(snake', food'))]_vars

\* C4: a direction request made while the session is not started, paused
\* or over leaves the pending and the displayed direction unchanged.
C4_RequestIgnoredWhenStopped ==
    [][(~Running /\ (HandleKeyDown \/ HandleDirectionButton)) =>
          UNCHANGED <<directionRef, direction>>]_vars

\* C5: togglePause (button or space key) leaves the paused flag as it is
\* when the session is not started or is over.
C5_PauseIgnoredWhenIdleOrOver ==
    [][((~gameStarted \/ gameOver) /\ (TogglePause \/ HandleKeyDown)) =>
          isPaused' = isPaused]_vars

\* C6: a game-over toast is emitted by exactly the steps that turn gameOver
\* from false to true, once, and it carries the score of that moment.
C6_ToastOncePerGameOver ==
    [][/\ (toast' # NoToast) <=> (~gameOver /\ gameOver')
       /\ (toast' # NoToast) => (toast' = <<score>> /\ score' = score)]_vars

\* A session that scored has just ended and its toast is out
C6_Witness == gameOver /\ toast # NoToast /\ score > 0

\* C7: start() leaves the session at its initial values whatever the state
\* it is taken from, with a food cell of the grid.
C7_StartResets ==
    [][StartGame =>
          /\ snake' = <<Cell(8, 8)>>
          /\ direction' = "RIGHT" /\ directionRef' = "RIGHT"
          /\ score' = 0 /\ speed' = 150
          /\ gameStarted' /\ ~isPaused' /\ ~gameOver'
          /\ InGrid(food')]_vars

\* start() has acted on a session whose snake had left the initial cell (the
\* food it placed lies there), and no tick has run since
C7_Witness ==
    /\ gameStarted /\ ~gameOver /\ ~isPaused /\ lastMove = "NONE"
    /\ snake = <<Cell(8, 8)>> /\ score = 0 /\ speed = 150
    /\ directionRef = "RIGHT"
    /\ food = Cell(8, 8)

\* C8: a tick whose new head is outside the grid sets gameOver and leaves
\* snake, score, speed and food as they were.
C8_WallEndsGame ==
    [][(Tick /\ ~InGrid(TickHead)) =>
          (gameOver' /\ UNCHANGED <<snake, score, speed, food>>)]_vars

\* The session has just ended moving LEFT from column 0
C8_Witness ==
    /\ gameOver /\ toast # NoToast
    /\ snake[1].x = 0 /\ directionRef = "LEFT"

\* C9: a tick whose new head is on a segment of the snake, the tail included,
\* sets gameOver and leaves the snake as it was.
C9_SelfCollisionEndsGame ==
    [][(Tick /\ Occupies(snake, TickHead)) =>
          (gameOver' /\ UNCHANGED snake)]_vars

\* The session has just ended with the head turned onto the tail cell
C9_Witness ==
    /\ gameOver /\ toast # NoToast
    /\ Len(snake) >= 2
    /\ TickHead = snake[Len(snake)]

\* C10: no two segments of the snake share their coordinates.
C10_SegmentsDistinct ==
    \A i, j \in 1..Len(snake) :
        i # j => ~(snake[i].x = snake[j].x /\ snake[i].y = snake[j].y)

\* A moving snake of three segments
C10_Witness == Running /\ Len(snake) >= 3 /\ lastMove # "NONE"

\* C11: a tick taken while the session is paused, over or not started leaves
\* snake, food, score, speed, both directions and the three flags unchanged
\* and emits no toast.
C11_StoppedTickIsNoOp ==
    [][(~Running /\ (Tick \/ MoveSnakeCall)) =>
          /\ UNCHANGED <<snake, food, score, speed, direction, directionRef,
                         gameStarted, isPaused, gameOver>>
          /\ toast' = NoToast]_vars

\* moveSnake has just been called on a paused session
C11_Witness == guardHit /\ gameStarted /\ isPaused /\ ~gameOver /\ Len(snake) >= 2

\* The tick's new head is in the grid and on no segment of the pre-tick snake
TickHeadFree == InGrid(TickHead) /\ ~Occupies(snake, TickHead)

\* C12: a tick whose computed head is in bounds and not on the pre-tick body
\* puts that head first; the snake grows by exactly one, keeping all its
\* segments, when the head is on the food, and otherwise keeps its length,
\* losing its last segment.
C12_GrowOrTranslate ==
    [][(Tick /\ TickHeadFree) =>
          /\ snake'[1] = TickHead
          /\ Len(snake') >= Len(snake)
          /\ IF TickHead = food
             THEN /\ Len(snake') = Len(snake) + 1
                  /\ \A i \in 1..Len(snake) : snake'[i + 1] = snake[i]
             ELSE /\ Len(snake') = Len(snake)
                  /\ \A i \in 1..(Len(snake) - 1) : snake'[i + 1] = snake[i]]_vars

\* A snake that grew to two segments and has since turned off the food row
C12_Witness ==
    /\ Running /\ Len(snake) = 2 /\ score = 10
    /\ snake[1].y # 8 /\ snake[2].y # 8

\* C13: the score grows by exactly 10 on every tick whose new head lands on
\* the food cell, no other tick and no direction request or pause toggle
\* changes it, and only start() resets it to 0.
C13_ScorePerFood ==
    [][/\ (Tick /\ TickHead = food) => score' = score + 10
       /\ (Tick /\ TickHead # food) => score' = score
       /\ (HandleKeyDown \/ HandleDirectionButton \/ TogglePause) => score' = score
       /\ (score' = 0 /\ score # 0) => StartGame]_vars

\* C14: the speed becomes max(speed - 5, 50) on every tick that consumes
\* the food and is unchanged by every other tick; it stays within 50..150
\* and only start() raises it.
C14_SpeedStep ==
    [][/\ FoodTick =>
            speed' = (IF speed - 5 >= 50 THEN speed - 5 ELSE 50)
       /\ (Tick /\ ~FoodTick) => speed' = speed
       /\ speed' > speed => StartGame
       /\ speed' >= 50 /\ speed' <= 150]_vars

\* A food has been consumed at the floor: 22 segments at speed 50
C14_Witness == speed = 50 /\ Len(snake) = FloorLen + 2 /\ score = 210

\* C15: the session follows Idle -> Running -> {Paused <-> Running} -> Over
\* -> (restart) -> Running: over becomes true only through a tick taken in
\* Running; once over, the session stays over with snake, food, score and
\* speed frozen until start(); started never returns to false; start() is
\* only taken from Idle or Over.
C15_SessionStateMachine ==
    [][/\ (~gameOver /\ gameOver') => (Tick /\ Running)
       /\ (gameOver /\ ~StartGame) =>
              (gameOver' /\ UNCHANGED <<snake, food, score, speed>>)
       /\ gameStarted => gameStarted'
       /\ StartGame => (~gameStarted \/ gameOver)]_vars

\* A session that is over, with a direction request made after its last tick
C15_Witness ==
    gameOver /\ score = 10 /\ lastMove # "NONE" /\ directionRef # lastMove

\* C16: at most one tick timer is pending at any moment; none is pending
\* when the session is paused, over or not started; exactly one is pending
\* while Running.
C16_OneTimer ==
    /\ pendingTimers <= 1
    /\ Running => (pendingTimers = 1 /\ timer # 0)
    /\ ~Running => (pendingTimers = 0 /\ timer = 0)

\* A session paused after a food tick, its timer cleared
C16_Witness ==
    gameStarted /\ isPaused /\ ~gameOver /\ score = 10 /\ pendingTimers = 0

\* C17: after a food tick has lowered the speed, the one pending timer is
\* armed with the lowered speed, not with the interval of before the tick.
C17_RearmWithNewSpeed ==
    [][(Tick /\ speed' < speed) =>
          (timer' = speed' /\ pendingTimers' = 1)]_vars

\* Running with the timer armed at the speed the first food left
C17_Witness == Running /\ score = 10 /\ speed = 145 /\ timer = 145

\* The unit vector of a direction
UnitX(d) == IF d = "LEFT" THEN -1 ELSE IF d = "RIGHT" THEN 1 ELSE 0

UnitY(d) == IF d = "UP" THEN -1 ELSE IF d = "DOWN" THEN 1 ELSE 0

\* C18: a tick moves the head by the unit vector of the pending direction;
\* the pending direction is the last accepted request (each accepted request
\* overwrites it, nothing else but start() changes it), and a tick leaves it
\* in place, so without a new request the next tick moves the same way.
C18_TickAppliesPending ==
    [][/\ (Tick /\ ~gameOver') =>
              /\ snake'[1].x = snake[1].x + UnitX(directionRef)
              /\ snake'[1].y = snake[1].y + UnitY(directionRef)
       /\ Tick => (directionRef' = directionRef /\ lastMove' = directionRef)
       /\ directionRef' # directionRef =>
              \/ StartGame
              \/ \E k \in Keys : KeyAccepts(k, directionRef)
                                    /\ directionRef' = KeyDirection(k)
              \/ \E d \in Direction : ButtonAccepts(d, directionRef)
                                         /\ directionRef' = d]_vars

\* From the start cell, two requests (UP, then LEFT) coalesced into one move
C18_Witness ==
    /\ Running /\ score = 0 /\ lastMove = "LEFT"
    /\ snake = <<Cell(INIT_X - 1, INIT_Y)>> /\ directionRef = "UP"

\* C19: in every reachable state score = 10 * (snake length - 1).
C19_ScoreTracksLength == score = 10 * (Len(snake) - 1)

\* Over after two foods: both the score and the length are kept
C19_Witness == gameOver /\ Len(snake) = 3 /\ score = 20

\* Two cells next to each other in a row or a column
Adjacent(a, b) ==
    \/ a.x = b.x /\ (a.y = b.y + 1 \/ a.y = b.y - 1)
    \/ a.y = b.y /\ (a.x = b.x + 1 \/ a.x = b.x - 1)

\* C20: every segment lies within the grid and consecutive segments are
\* orthogonally adjacent.
C20_ConnectedInGrid ==
    /\ \A i \in 1..Len(snake) : InGrid(snake[i])
    /\ \A i \in 1..(Len(snake) - 1) : Adjacent(snake[i], snake[i + 1])

\* A bent snake of three segments with its head on the top row
C20_Witness ==
    /\ Running /\ Len(snake) = 3 /\ snake[1].y = 0
    /\ snake[1].x # snake[3].x /\ snake[1].y # snake[3].y

====
